---- MODULE Spec2Model ----
(***************************************************************************)
(* Model of the orchestration controller of run_pipeline.py: the entry     *)
(* point main, the single-document orchestrator process_single_pdf and     *)
(* the batch orchestrator process_directory.  The stage collaborators      *)
(* (process_pdf, process_pdf_batch, extract_entities,                      *)
(* process_extracted_data, store_processed_data) live outside the          *)
(* repository's visible source: each call returns a value drawn from a     *)
(* small set or raises.  The module also holds the system self-check of   *)
(* test_system.py: its main and the five checks main runs.                 *)
(*                                                                         *)
(* File names are sequences of one-character strings so that basename,     *)
(* splitext and the glob match are computed as the library computes them;  *)
(* artifact paths are the strings the f-strings of the code build.         *)
(***************************************************************************)
EXTENDS Integers, Sequences, FiniteSets, TLC

VARIABLES
    input_kind,         \* what args.input resolves to: "file", "dir", "none"
    listing,            \* names present in the input directory (dir run)
    pdf_path,           \* the input file's name (file run)
    save_intermediates, \* args.save_intermediates
    store_in_db,        \* not args.no_db
    pc,                 \* position of the control thread
    pdf_files,          \* process_directory: result of glob.glob
    i,                  \* process_directory: 1-based position of the for loop
    successful,         \* process_directory counters
    failed,
    products_found,
    pdf_info,           \* locals of the orchestrator that is running
    entities_data,
    processed_data,
    db_result,
    outdir,             \* artifact paths present in the output directory
    after_extract,      \* history: outdir when process_pdf_batch returned
    events,             \* history: collaborator calls, writes, raises, counts
    result,             \* value returned by the orchestrator, or NoResult
    exit_code,          \* status the process exits with, or NoExit
    skip_db,            \* test_system.py: args.skip_db
    skip_pdf,           \* args.skip_pdf
    skip_nlp,           \* args.skip_nlp
    skip_api,           \* args.skip_api
    missing_dirs,       \* required directories that do not exist
    raw_pdfs,           \* whether data/raw holds a *.pdf file
    tpc,                \* position of test_system.main
    results,            \* main's results dict, in insertion order
    probes,             \* history: checks that went on to probe the system
    status              \* value test_system.main returns, or NoExit

vars == <<input_kind, listing, pdf_path, save_intermediates, store_in_db, pc,
          pdf_files, i, successful, failed, products_found, pdf_info,
          entities_data, processed_data, db_result, outdir, after_extract,
          events, result, exit_code, skip_db, skip_pdf, skip_nlp, skip_api,
          missing_dirs, raw_pdfs, tpc, results, probes, status>>

\* The state of the self-check; run_pipeline.py never touches it.
selfcheck == <<skip_db, skip_pdf, skip_nlp, skip_api, missing_dirs, raw_pdfs,
               tpc, results, probes, status>>

args == <<input_kind, listing, pdf_path, save_intermediates, store_in_db>>
counters == <<successful, failed, products_found>>
locals == <<pdf_info, entities_data, processed_data, db_result>>

-----------------------------------------------------------------------------
(* Bounds and the small universes the inputs are drawn from.               *)

MaxProducts == 1

EmptyDict == [k \in {} |-> 0]
NoResult == [no_result |-> TRUE]
NoExit == -1

\* Names a directory listing can hold.
F_a == <<"a", ".", "p", "d", "f">>
F_a_processed ==
    <<"a", "_", "p", "r", "o", "c", "e", "s", "s", "e", "d", ".", "p", "d", "f">>
F_b == <<"b", ".", "p", "d", "f">>
F_notes == <<"n", "o", "t", "e", "s", ".", "t", "x", "t">>
PdfNames == {F_a, F_a_processed, F_b}

input_dir == <<"i", "n">>
file_pattern == <<"*", ".", "p", "d", "f">>

\* Values the collaborators can return.
PdfInfos == {[page_count |-> 3, requires_ocr |-> TRUE], EmptyDict}
EntityResults ==
    {[entities |-> [ORG |-> <<"Acme">>, PRICE |-> <<"19.99">>]],
     [ORG |-> <<"Acme">>, PRICE |-> <<"19.99">>],
     [entities |-> [ORG |-> <<"Acme", "Bolt">>]],
     [entities |-> EmptyDict]}
ProcessedResults ==
    {[products |-> [k \in 1..n |-> k]] : n \in 1..MaxProducts} \cup {EmptyDict}
StorageOutcomes ==
    {[success |-> TRUE, document_id |-> 1, product_ids |-> <<1>>],
     [success |-> FALSE, errors |-> <<"duplicate key">>],
     EmptyDict}

-----------------------------------------------------------------------------
(* Library functions the orchestrators use.                                *)

Max(S) == CHOOSE m \in S : \A n \in S : n <= m

\* str.rfind: the last position of c in s, 0 when absent.
RFind(s, c) ==
    LET I == {k \in 1..Len(s) : s[k] = c}
    IN  IF I = {} THEN 0 ELSE Max(I)

RECURSIVE Str(_)
\* The Python string a sequence of characters stands for.
Str(s) == IF s = <<>> THEN "" ELSE Head(s) \o Str(Tail(s))

\* os.path.join(input_dir, name)
PathJoin(dir, name) == dir \o <<"/">> \o name

\* os.path.basename: what follows the last separator.
Basename(p) == SubSeq(p, RFind(p, "/") + 1, Len(p))

\* os.path.splitext(...)[0]: cut at the last dot, unless only dots precede it.
SplitextRoot(p) ==
    LET sepIndex == RFind(p, "/")
        dotIndex == RFind(p, ".")
    IN  IF /\ dotIndex > sepIndex
           /\ \E k \in (sepIndex + 1)..(dotIndex - 1) : p[k] # "."
        THEN SubSeq(p, 1, dotIndex - 1)
        ELSE p

\* base_name = os.path.splitext(os.path.basename(path))[0]
BaseName(p) == Str(SplitextRoot(Basename(p)))

\* fnmatch of a name against a pattern "*<literal>", as glob applies it:
\* the name ends with the literal and is not a hidden file.
Matches(name, pattern) ==
    LET lit == Tail(pattern)
    IN  /\ Head(pattern) = "*"
        /\ Len(name) >= Len(lit)
        /\ SubSeq(name, Len(name) - Len(lit) + 1, Len(name)) = lit
        /\ name # <<>>
        /\ name[1] # "."

\* glob.glob(os.path.join(input_dir, file_pattern)): the matching entries,
\* in whatever order the directory lists them.
Glob(names) ==
    LET M == {n \in names : Matches(n, file_pattern)}
    IN  {s \in [1..Cardinality(M) -> {PathJoin(input_dir, n) : n \in M}] :
            \A j, k \in 1..Cardinality(M) : j # k => s[j] # s[k]}

\* dict.get(key, default)
Get(d, key, default) == IF key \in DOMAIN d THEN d[key] ELSE default

RECURSIVE SumLen(_, _)
SumLen(d, keys) ==
    IF keys = {} THEN 0
    ELSE LET k == CHOOSE x \in keys : TRUE
         IN  Len(d[k]) + SumLen(d, keys \ {k})

\* Artifact paths under the output directory.
ExtractionPath(base) == base \o ".json"
TextPath(base) == base \o "_text.json"
EntitiesPath(base) == base \o "_entities.json"
ProcessedPath(base) == base \o "_processed.json"
DbResultPath(base) == base \o "_db_result.json"

\* A faulty variant: the keys of the recognizer's result itself.
EntityTypes_TopLevel(ed) == DOMAIN ed

\* list(entities_data.get('entities', {}).keys()), as a set
EntityTypes(ed) == DOMAIN Get(ed, "entities", EmptyDict)

\* sum(len(entities) for entities in entities_data.get('entities', {}).values())
EntityCount(ed) ==
    LET m == Get(ed, "entities", EmptyDict) IN SumLen(m, DOMAIN m)

\* len(processed_data.get('products', []))
ProductCount(pd) == Len(Get(pd, "products", <<>>))

\* db_result.get('success', False)
StorageSucceeded(dr) == Get(dr, "success", FALSE)

-----------------------------------------------------------------------------
(* History records.                                                        *)

Ev(op, stage, idx, path, n) ==
    [op |-> op, stage |-> stage, idx |-> idx, path |-> path, n |-> n]
Call(stage, idx, n) == Ev("call", stage, idx, "", n)
Write(stage, idx, path) == Ev("write", stage, idx, path, 0)
Raise(stage, idx) == Ev("raise", stage, idx, "", 0)
Count(as, idx) == Ev("count", as, idx, "", 0)

EventsOf(op) == {k \in 1..Len(events) : events[k].op = op}

\* test_system.py is not running.
SelfCheckNotStarted ==
    /\ skip_db = FALSE
    /\ skip_pdf = FALSE
    /\ skip_nlp = FALSE
    /\ skip_api = FALSE
    /\ missing_dirs = {}
    /\ raw_pdfs = FALSE
    /\ tpc = "not_started"
    /\ results = <<>>
    /\ probes = {}
    /\ status = NoExit

-----------------------------------------------------------------------------
Init ==
    /\ input_kind \in {"file", "dir", "none"}
    /\ listing \in IF input_kind = "dir"
                    THEN {S \cup {F_notes} : S \in SUBSET PdfNames}
                    ELSE {{}}
    /\ pdf_path \in IF input_kind = "file"
                     THEN {PathJoin(input_dir, F_a), F_a_processed}
                     ELSE {<<>>}
    /\ save_intermediates \in BOOLEAN
    /\ store_in_db \in BOOLEAN
    /\ pc = "main"
    /\ pdf_files = <<>>
    /\ i = 0
    /\ successful = 0
    /\ failed = 0
    /\ products_found = 0
    /\ pdf_info = EmptyDict
    /\ entities_data = EmptyDict
    /\ processed_data = EmptyDict
    /\ db_result = EmptyDict
    /\ outdir = {}
    /\ after_extract = {}
    /\ events = <<>>
    /\ result = NoResult
    /\ exit_code = NoExit
    /\ SelfCheckNotStarted

-----------------------------------------------------------------------------
(* main: dispatch on the input path.                                       *)

\* if os.path.isfile(args.input): process_single_pdf(...)
MainDispatchFile ==
    /\ pc = "main"
    /\ input_kind = "file"
    /\ pc' = "sp_extract"
    /\ UNCHANGED <<selfcheck, args, pdf_files, i, counters, locals, outdir,
                   after_extract, events, result, exit_code>>

\* elif os.path.isdir(args.input): process_directory(...)
MainDispatchDir ==
    /\ pc = "main"
    /\ input_kind = "dir"
    /\ pc' = "pd_glob"
    /\ UNCHANGED <<selfcheck, args, pdf_files, i, counters, locals, outdir,
                   after_extract, events, result, exit_code>>

\* else: logger.error("Input not found"); return 1
MainInputNotFound ==
    /\ pc = "main"
    /\ input_kind = "none"
    /\ pc' = "exited"
    /\ exit_code' = 1
    /\ UNCHANGED <<selfcheck, args, pdf_files, i, counters, locals, outdir,
                   after_extract, events, result>>

-----------------------------------------------------------------------------
(* process_single_pdf                                                      *)

\* filename and base_name of the document.
filename == Str(Basename(pdf_path))
base_name == BaseName(pdf_path)

\* A faulty variant: the storage section is the outcome variable whatever the flag.
SingleSummary_AlwaysOutcome ==
    [pdf_info |->
        [filename |-> filename,
         page_count |-> Get(pdf_info, "page_count", 0),
         requires_ocr |-> Get(pdf_info, "requires_ocr", FALSE)],
     entity_extraction |->
        [entity_types |-> EntityTypes(entities_data),
         entity_count |-> EntityCount(entities_data)],
     data_processing |-> [product_count |-> ProductCount(processed_data)],
     database_storage |-> db_result]

\* The value process_single_pdf returns (the wall-clock times left out).
SingleSummary ==
    [pdf_info |->
        [filename |-> filename,
         page_count |-> Get(pdf_info, "page_count", 0),
         requires_ocr |-> Get(pdf_info, "requires_ocr", FALSE)],
     entity_extraction |->
        [entity_types |-> EntityTypes(entities_data),
         entity_count |-> EntityCount(entities_data)],
     data_processing |-> [product_count |-> ProductCount(processed_data)],
     database_storage |->
        IF store_in_db THEN db_result ELSE [skipped |-> TRUE]]

\* A faulty variant: the exception is swallowed and a summary is returned.
SP_Propagate_Swallowed(stage, pre) ==
    /\ events' = events \o pre \o <<Raise(stage, 0)>>
    /\ pc' = "sp_return"
    /\ UNCHANGED locals

\* Nothing in process_single_pdf catches: an exception leaves it.
SP_Propagate(stage, pre) ==
    /\ events' = events \o pre \o <<Raise(stage, 0)>>
    /\ pc' = "uncaught"
    /\ UNCHANGED locals

\* pdf_info = process_pdf(pdf_path)
SP_Extract ==
    /\ pc = "sp_extract"
    /\ \/ /\ pdf_info' \in PdfInfos
          /\ events' = Append(events, Call("extract", 0, 0))
          /\ pc' = IF save_intermediates THEN "sp_write_text"
                                         ELSE "sp_recognize"
          /\ UNCHANGED <<entities_data, processed_data, db_result>>
       \/ SP_Propagate("extract", <<Call("extract", 0, 0)>>)
    /\ UNCHANGED <<selfcheck, args, pdf_files, i, counters, outdir, after_extract,
                   result, exit_code>>

\* if save_intermediates: json.dump(pdf_info, <base>_text.json)
SP_WriteText ==
    /\ pc = "sp_write_text"
    /\ \/ /\ outdir' = outdir \cup {TextPath(base_name)}
          /\ events' = Append(events, Write("text", 0, TextPath(base_name)))
          /\ pc' = "sp_recognize"
          /\ UNCHANGED locals
       \/ /\ UNCHANGED outdir
          /\ SP_Propagate("write_text", <<>>)
    /\ UNCHANGED <<selfcheck, args, pdf_files, i, counters, after_extract, result,
                   exit_code>>

\* entities_data = extract_entities(pdf_info, model_path)
SP_Recognize ==
    /\ pc = "sp_recognize"
    /\ \/ /\ entities_data' \in EntityResults
          /\ events' = Append(events, Call("recognize", 0, 0))
          /\ pc' = IF save_intermediates THEN "sp_write_entities"
                                         ELSE "sp_normalize"
          /\ UNCHANGED <<pdf_info, processed_data, db_result>>
       \/ SP_Propagate("recognize", <<Call("recognize", 0, 0)>>)
    /\ UNCHANGED <<selfcheck, args, pdf_files, i, counters, outdir, after_extract,
                   result, exit_code>>

\* if save_intermediates: json.dump(entities_data, <base>_entities.json)
SP_WriteEntities ==
    /\ pc = "sp_write_entities"
    /\ \/ /\ outdir' = outdir \cup {EntitiesPath(base_name)}
          /\ events' = Append(events,
                 Write("entities", 0, EntitiesPath(base_name)))
          /\ pc' = "sp_normalize"
          /\ UNCHANGED locals
       \/ /\ UNCHANGED outdir
          /\ SP_Propagate("write_entities", <<>>)
    /\ UNCHANGED <<selfcheck, args, pdf_files, i, counters, after_extract, result,
                   exit_code>>

\* processed_data = process_extracted_data(entities_data)
SP_Normalize ==
    /\ pc = "sp_normalize"
    /\ \/ /\ processed_data' \in ProcessedResults
          /\ events' = Append(events,
                 Call("normalize", 0, ProductCount(processed_data')))
          /\ pc' = "sp_write_processed"
          /\ UNCHANGED <<pdf_info, entities_data, db_result>>
       \/ SP_Propagate("normalize", <<Call("normalize", 0, 0)>>)
    /\ UNCHANGED <<selfcheck, args, pdf_files, i, counters, outdir, after_extract,
                   result, exit_code>>

\* A faulty variant: an artifact that exists is kept and the new content goes
\* under a fresh name.
SP_WriteProcessed_KeepsOld ==
    /\ pc = "sp_write_processed"
    /\ \/ /\ LET path == IF ProcessedPath(base_name) \in outdir
                        THEN ProcessedPath(base_name) \o ".1"
                        ELSE ProcessedPath(base_name)
             IN /\ outdir' = outdir \cup {path}
                /\ events' = Append(events, Write("processed", 0, path))
          /\ db_result' = EmptyDict
          /\ pc' = IF store_in_db THEN "sp_store" ELSE "sp_return"
          /\ UNCHANGED <<pdf_info, entities_data, processed_data>>
       \/ /\ UNCHANGED outdir
          /\ SP_Propagate("write_processed", <<>>)
    /\ UNCHANGED <<selfcheck, args, pdf_files, i, counters, after_extract, result,
                   exit_code>>

\* A faulty variant: the storage sink is invoked whatever the flag.
SP_WriteProcessed_AlwaysStores ==
    /\ pc = "sp_write_processed"
    /\ \/ /\ outdir' = outdir \cup {ProcessedPath(base_name)}
          /\ events' = Append(events,
                 Write("processed", 0, ProcessedPath(base_name)))
          /\ db_result' = EmptyDict
          /\ pc' = "sp_store"
          /\ UNCHANGED <<pdf_info, entities_data, processed_data>>
       \/ /\ UNCHANGED outdir
          /\ SP_Propagate("write_processed", <<>>)
    /\ UNCHANGED <<selfcheck, args, pdf_files, i, counters, after_extract, result,
                   exit_code>>

\* json.dump(processed_data, <base>_processed.json); db_result = {}
SP_WriteProcessed ==
    /\ pc = "sp_write_processed"
    /\ \/ /\ outdir' = outdir \cup {ProcessedPath(base_name)}
          /\ events' = Append(events,
                 Write("processed", 0, ProcessedPath(base_name)))
          /\ db_result' = EmptyDict
          /\ pc' = IF store_in_db THEN "sp_store" ELSE "sp_return"
          /\ UNCHANGED <<pdf_info, entities_data, processed_data>>
       \/ /\ UNCHANGED outdir
          /\ SP_Propagate("write_processed", <<>>)
    /\ UNCHANGED <<selfcheck, args, pdf_files, i, counters, after_extract, result,
                   exit_code>>

\* if store_in_db: db_result = store_processed_data(processed_data)
SP_Store ==
    /\ pc = "sp_store"
    /\ \/ /\ db_result' \in StorageOutcomes
          /\ events' = Append(events,
                 Call("store", 0, IF StorageSucceeded(db_result') THEN 1 ELSE 0))
          /\ pc' = "sp_write_db"
          /\ UNCHANGED <<pdf_info, entities_data, processed_data>>
       \/ SP_Propagate("store", <<Call("store", 0, 0)>>)
    /\ UNCHANGED <<selfcheck, args, pdf_files, i, counters, outdir, after_extract,
                   result, exit_code>>

\* A faulty variant: the storage outcome is persisted only when storage succeeded.
SP_WriteDb_OnlyOnSuccess ==
    /\ pc = "sp_write_db"
    /\ IF StorageSucceeded(db_result)
       THEN /\ outdir' = outdir \cup {DbResultPath(base_name)}
            /\ events' = Append(events,
                   Write("db_result", 0, DbResultPath(base_name)))
       ELSE UNCHANGED <<outdir, events>>
    /\ pc' = "sp_return"
    /\ UNCHANGED <<selfcheck, args, pdf_files, i, counters, locals, after_extract,
                   result, exit_code>>

\* json.dump(db_result, <base>_db_result.json), then the outcome is logged
SP_WriteDb ==
    /\ pc = "sp_write_db"
    /\ \/ /\ outdir' = outdir \cup {DbResultPath(base_name)}
          /\ events' = Append(events,
                 Write("db_result", 0, DbResultPath(base_name)))
          /\ pc' = "sp_return"
          /\ UNCHANGED locals
       \/ /\ UNCHANGED outdir
          /\ SP_Propagate("write_db_result", <<>>)
    /\ UNCHANGED <<selfcheck, args, pdf_files, i, counters, after_extract, result,
                   exit_code>>

\* return {...}
SP_Return ==
    /\ pc = "sp_return"
    /\ result' = SingleSummary
    /\ pc' = "main_single_summary"
    /\ UNCHANGED <<selfcheck, args, pdf_files, i, counters, locals, outdir,
                   after_extract, events, exit_code>>

-----------------------------------------------------------------------------
(* process_directory                                                       *)

\* The return value of the early return when nothing matches.
NoFilesResult == [error |-> "No PDF files found", file_count |-> 0]

\* The summary returned after the loop.
BatchSummary ==
    [file_count |-> Len(pdf_files), successful |-> successful,
     failed |-> failed, products_found |-> products_found]

\* Locals are dead at the head of the loop: every one is assigned before
\* it is read in an iteration.  The model forgets a local of the loop once
\* the iteration cannot read it any more.
ResetLocals ==
    /\ pdf_info' = EmptyDict
    /\ entities_data' = EmptyDict
    /\ processed_data' = EmptyDict
    /\ db_result' = EmptyDict

\* json_path and base_name of the file the loop is at.
CurBase == BaseName(pdf_files[i])

\* A faulty variant: the exception is not caught at the per-file boundary.
PerFileExcept_Propagates(stage, pre) ==
    /\ events' = events \o pre \o <<Raise(stage, i)>>
    /\ pc' = "uncaught"
    /\ UNCHANGED <<i, counters, locals>>

\* A faulty variant: after an exception the same file is tried again.
PerFileExcept_Retries(stage, pre) ==
    /\ events' = events \o pre \o <<Raise(stage, i), Count("failed", i)>>
    /\ failed' = failed + 1
    /\ UNCHANGED <<successful, products_found>>
    /\ i' = i
    /\ pc' = "pd_loop"
    /\ ResetLocals

\* except Exception as e: logger.error(...); failed += 1, then the next
\* iteration.  `pre` are the history records of the step that raised.
PerFileExcept(stage, pre) ==
    /\ events' = events \o pre \o <<Raise(stage, i), Count("failed", i)>>
    /\ failed' = failed + 1
    /\ UNCHANGED <<successful, products_found>>
    /\ i' = i + 1
    /\ pc' = "pd_loop"
    /\ ResetLocals

\* A faulty variant: no early return when nothing matches.
PD_Glob_NoEarlyReturn ==
    /\ pc = "pd_glob"
    /\ pdf_files' \in Glob(listing)
    /\ pc' = "pd_batch"
    /\ UNCHANGED <<selfcheck, args, i, counters, locals, outdir, after_extract, events,
                   result, exit_code>>

\* os.makedirs, glob.glob and the early return on an empty match.
PD_Glob ==
    /\ pc = "pd_glob"
    /\ pdf_files' \in Glob(listing)
    /\ IF pdf_files' = <<>>
       THEN /\ result' = NoFilesResult
            /\ pc' = "main_batch_summary"
       ELSE /\ pc' = "pd_batch"
            /\ UNCHANGED result
    /\ UNCHANGED <<selfcheck, args, i, counters, locals, outdir, after_extract, events,
                   exit_code>>

\* The artifacts process_pdf_batch leaves: <base>.json for the files whose
\* extraction worked, in the order of the files.
ExtractWrites(done) ==
    LET idx == {k \in 1..Len(pdf_files) : k \in done}
        RECURSIVE W(_)
        W(S) == IF S = {} THEN <<>>
                ELSE LET k == CHOOSE x \in S : \A y \in S : x <= y
                     IN  <<Write("extract_batch", k,
                                 ExtractionPath(BaseName(pdf_files[k])))>>
                         \o W(S \ {k})
    IN  W(idx)

\* A faulty variant: an exception of the batch extractor is swallowed and
\* the loop runs on what was extracted.
PD_BatchExtract_Caught ==
    /\ pc = "pd_batch"
    /\ \E done \in SUBSET (1..Len(pdf_files)) :
         /\ outdir' = outdir \cup
                {ExtractionPath(BaseName(pdf_files[k])) : k \in done}
         /\ \/ events' = events \o <<Call("extract_batch", 0, 0)>>
                                \o ExtractWrites(done)
            \/ events' = events \o <<Call("extract_batch", 0, 0)>>
                                \o ExtractWrites(done)
                                \o <<Raise("extract_batch", 0)>>
         /\ after_extract' = outdir'
         /\ i' = 1
         /\ successful' = 0
         /\ failed' = 0
         /\ products_found' = 0
         /\ pc' = "pd_loop"
    /\ UNCHANGED <<selfcheck, args, pdf_files, locals, result, exit_code>>

\* batch_results = process_pdf_batch(...), then the counters are set to 0.
\* The call is outside the try: an exception of the call propagates.
PD_BatchExtract ==
    /\ pc = "pd_batch"
    /\ \E done \in SUBSET (1..Len(pdf_files)) :
         /\ outdir' = outdir \cup
                {ExtractionPath(BaseName(pdf_files[k])) : k \in done}
         /\ \/ /\ events' = events \o <<Call("extract_batch", 0, 0)>>
                                   \o ExtractWrites(done)
               /\ after_extract' = outdir'
               /\ i' = 1
               /\ successful' = 0
               /\ failed' = 0
               /\ products_found' = 0
               /\ pc' = "pd_loop"
            \/ /\ events' = events \o <<Call("extract_batch", 0, 0)>>
                                   \o ExtractWrites(done)
                                   \o <<Raise("extract_batch", 0)>>
               /\ pc' = "uncaught"
               /\ UNCHANGED <<after_extract, i, counters>>
    /\ UNCHANGED <<selfcheck, args, pdf_files, locals, result, exit_code>>

\* A faulty variant: the missing artifact is skipped without being counted.
PD_MissingArtifact_NotCounted ==
    /\ pc = "pd_loop"
    /\ i <= Len(pdf_files)
    /\ ExtractionPath(CurBase) \notin outdir
    /\ events' = Append(events, Count("failed", i))
    /\ i' = i + 1
    /\ UNCHANGED <<selfcheck, args, pc, pdf_files, counters, locals, outdir,
                   after_extract, result, exit_code>>

\* A faulty variant: a file without extraction artifact is extracted inside
\* the loop.
PD_MissingArtifact_ExtractsInLoop ==
    /\ pc = "pd_loop"
    /\ i <= Len(pdf_files)
    /\ ExtractionPath(CurBase) \notin outdir
    /\ outdir' = outdir \cup {ExtractionPath(CurBase)}
    /\ events' = Append(events,
           Write("extract_batch", i, ExtractionPath(CurBase)))
    /\ UNCHANGED <<selfcheck, args, pc, pdf_files, i, counters, locals, after_extract,
                   result, exit_code>>

\* if not os.path.exists(json_path): failed += 1; continue
PD_MissingArtifact ==
    /\ pc = "pd_loop"
    /\ i <= Len(pdf_files)
    /\ ExtractionPath(CurBase) \notin outdir
    /\ failed' = failed + 1
    /\ events' = Append(events, Count("failed", i))
    /\ i' = i + 1
    /\ UNCHANGED <<selfcheck, args, pc, pdf_files, successful, products_found, locals,
                   outdir, after_extract, result, exit_code>>

\* with open(json_path) as f: pdf_info = json.load(f)
PD_Load ==
    /\ pc = "pd_loop"
    /\ i <= Len(pdf_files)
    /\ ExtractionPath(CurBase) \in outdir
    /\ \/ /\ pdf_info' \in PdfInfos
          /\ pc' = "pd_recognize"
          /\ UNCHANGED <<i, counters, entities_data, processed_data,
                         db_result, events>>
       \/ PerFileExcept("load", <<>>)
    /\ UNCHANGED <<selfcheck, args, pdf_files, outdir, after_extract, result, exit_code>>

\* entities_data = extract_entities(pdf_info, model_path)
PD_Recognize ==
    /\ pc = "pd_recognize"
    /\ \/ /\ entities_data' \in EntityResults
          /\ events' = Append(events, Call("recognize", i, 0))
          /\ pc' = IF save_intermediates THEN "pd_write_entities"
                                         ELSE "pd_normalize"
          /\ pdf_info' = EmptyDict  \* not read again in this iteration
          /\ UNCHANGED <<i, counters, processed_data, db_result>>
       \/ PerFileExcept("recognize", <<Call("recognize", i, 0)>>)
    /\ UNCHANGED <<selfcheck, args, pdf_files, outdir, after_extract, result, exit_code>>

\* if save_intermediates: json.dump(entities_data, <base>_entities.json)
\* A write that raises is taken to fail in open(): the directory is left as
\* it was.
PD_WriteEntities ==
    /\ pc = "pd_write_entities"
    /\ \/ /\ outdir' = outdir \cup {EntitiesPath(CurBase)}
          /\ events' = Append(events, Write("entities", i, EntitiesPath(CurBase)))
          /\ pc' = "pd_normalize"
          /\ UNCHANGED <<i, counters, locals>>
       \/ /\ UNCHANGED outdir
          /\ PerFileExcept("write_entities", <<>>)
    /\ UNCHANGED <<selfcheck, args, pdf_files, after_extract, result, exit_code>>

\* processed_data = process_extracted_data(entities_data)
PD_Normalize ==
    /\ pc = "pd_normalize"
    /\ \/ /\ processed_data' \in ProcessedResults
          /\ events' = Append(events,
                 Call("normalize", i, ProductCount(processed_data')))
          /\ pc' = "pd_write_processed"
          /\ entities_data' = EmptyDict  \* not read again in this iteration
          /\ UNCHANGED <<i, counters, pdf_info, db_result>>
       \/ PerFileExcept("normalize", <<Call("normalize", i, 0)>>)
    /\ UNCHANGED <<selfcheck, args, pdf_files, outdir, after_extract, result, exit_code>>

\* json.dump(processed_data, <base>_processed.json)
PD_WriteProcessed ==
    /\ pc = "pd_write_processed"
    /\ \/ /\ outdir' = outdir \cup {ProcessedPath(CurBase)}
          /\ events' = Append(events,
                 Write("processed", i, ProcessedPath(CurBase)))
          /\ pc' = IF store_in_db THEN "pd_store" ELSE "pd_classify"
          /\ UNCHANGED <<i, counters, locals>>
       \/ /\ UNCHANGED outdir
          /\ PerFileExcept("write_processed", <<>>)
    /\ UNCHANGED <<selfcheck, args, pdf_files, after_extract, result, exit_code>>

\* if store_in_db: db_result = store_processed_data(processed_data)
PD_Store ==
    /\ pc = "pd_store"
    /\ \/ /\ db_result' \in StorageOutcomes
          /\ events' = Append(events,
                 Call("store", i, IF StorageSucceeded(db_result') THEN 1 ELSE 0))
          /\ pc' = "pd_write_db"
          /\ UNCHANGED <<i, counters, pdf_info, entities_data, processed_data>>
       \/ PerFileExcept("store", <<Call("store", i, 0)>>)
    /\ UNCHANGED <<selfcheck, args, pdf_files, outdir, after_extract, result, exit_code>>

\* A faulty variant: in the loop the storage outcome is persisted only when
\* storage succeeded.
PD_WriteDb_OnlyOnSuccess ==
    /\ pc = "pd_write_db"
    /\ IF StorageSucceeded(db_result)
       THEN /\ outdir' = outdir \cup {DbResultPath(CurBase)}
            /\ events' = Append(events,
                   Write("db_result", i, DbResultPath(CurBase)))
       ELSE UNCHANGED <<outdir, events>>
    /\ pc' = "pd_classify"
    /\ UNCHANGED <<i, counters, locals>>
    /\ UNCHANGED <<selfcheck, args, pdf_files, after_extract, result, exit_code>>

\* json.dump(db_result, <base>_db_result.json)
PD_WriteDb ==
    /\ pc = "pd_write_db"
    /\ \/ /\ outdir' = outdir \cup {DbResultPath(CurBase)}
          /\ events' = Append(events, Write("db_result", i, DbResultPath(CurBase)))
          /\ pc' = "pd_classify"
          /\ UNCHANGED <<i, counters, locals>>
       \/ /\ UNCHANGED outdir
          /\ PerFileExcept("write_db_result", <<>>)
    /\ UNCHANGED <<selfcheck, args, pdf_files, after_extract, result, exit_code>>

\* A faulty variant: the storage outcome is ignored when the file is counted.
CountsAsSuccessful_IgnoresOutcome == TRUE

\* Whether the file the loop is at counts as successful: the storage
\* outcome's flag when storage ran, always when it did not.
CountsAsSuccessful ==
    IF store_in_db THEN StorageSucceeded(db_result) ELSE TRUE

\* A faulty variant: the product count is added whatever the classification.
PD_Classify_AlwaysAdds ==
    /\ pc = "pd_classify"
    /\ products_found' = products_found + ProductCount(processed_data)
    /\ IF CountsAsSuccessful
       THEN /\ successful' = successful + 1
            /\ UNCHANGED failed
            /\ events' = Append(events, Count("successful", i))
       ELSE /\ failed' = failed + 1
            /\ UNCHANGED successful
            /\ events' = Append(events, Count("failed", i))
    /\ i' = i + 1
    /\ pc' = "pd_loop"
    /\ ResetLocals
    /\ UNCHANGED <<selfcheck, args, pdf_files, outdir, after_extract, result, exit_code>>

\* The if/else that closes the try block: count the file.
PD_Classify ==
    /\ pc = "pd_classify"
    /\ IF CountsAsSuccessful
       THEN /\ products_found' = products_found + ProductCount(processed_data)
            /\ successful' = successful + 1
            /\ UNCHANGED failed
            /\ events' = Append(events, Count("successful", i))
       ELSE /\ failed' = failed + 1
            /\ UNCHANGED <<successful, products_found>>
            /\ events' = Append(events, Count("failed", i))
    /\ i' = i + 1
    /\ pc' = "pd_loop"
    /\ ResetLocals
    /\ UNCHANGED <<selfcheck, args, pdf_files, outdir, after_extract, result, exit_code>>

\* The loop is over: return the summary.
PD_Return ==
    /\ pc = "pd_loop"
    /\ i > Len(pdf_files)
    /\ result' = BatchSummary
    /\ pc' = "main_batch_summary"
    /\ UNCHANGED <<selfcheck, args, pdf_files, i, counters, locals, outdir,
                   after_extract, events, exit_code>>

-----------------------------------------------------------------------------
(* main, after the orchestrator.                                           *)

\* The batch branch logs result['file_count'], ['successful'], ['failed'],
\* ['products_found'] and returns 0; a missing key is a KeyError that
\* nothing catches, and the interpreter exits with status 1.
MainBatchSummary ==
    /\ pc = "main_batch_summary"
    /\ exit_code' =
          IF {"file_count", "successful", "failed", "products_found"}
                 \subseteq DOMAIN result
          THEN 0 ELSE 1
    /\ pc' = "exited"
    /\ UNCHANGED <<selfcheck, args, pdf_files, i, counters, locals, outdir,
                   after_extract, events, result>>

\* The single-file branch logs the summary's sections and returns 0.
MainSingleSummary ==
    /\ pc = "main_single_summary"
    /\ exit_code' = 0
    /\ pc' = "exited"
    /\ UNCHANGED <<selfcheck, args, pdf_files, i, counters, locals, outdir,
                   after_extract, events, result>>

\* A faulty variant: what a failed run wrote is removed on the way out.
MainUncaught_RollsBack ==
    /\ pc = "uncaught"
    /\ exit_code' = 1
    /\ pc' = "exited"
    /\ outdir' = {}
    /\ UNCHANGED <<selfcheck, args, pdf_files, i, counters, locals, after_extract,
                   events, result>>

\* An exception that left the orchestrator leaves main too: exit(main())
\* never gets a value and the interpreter exits with status 1.
MainUncaught ==
    /\ pc = "uncaught"
    /\ exit_code' = 1
    /\ pc' = "exited"
    /\ UNCHANGED <<selfcheck, args, pdf_files, i, counters, locals, outdir,
                   after_extract, events, result>>

Next ==
    \/ MainDispatchFile
    \/ MainDispatchDir
    \/ MainInputNotFound
    \/ SP_Extract
    \/ SP_WriteText
    \/ SP_Recognize
    \/ SP_WriteEntities
    \/ SP_Normalize
    \/ SP_WriteProcessed
    \/ SP_Store
    \/ SP_WriteDb
    \/ SP_Return
    \/ MainSingleSummary
    \/ PD_Glob
    \/ PD_BatchExtract
    \/ PD_MissingArtifact
    \/ PD_Load
    \/ PD_Recognize
    \/ PD_WriteEntities
    \/ PD_Normalize
    \/ PD_WriteProcessed
    \/ PD_Store
    \/ PD_WriteDb
    \/ PD_Classify
    \/ PD_Return
    \/ MainBatchSummary
    \/ MainUncaught

Spec == Init /\ [][Next]_vars

\* The runs on a single document.
InitSingle == Init /\ input_kind = "file"
NextSingle ==
    \/ MainDispatchFile
    \/ SP_Extract
    \/ SP_WriteText
    \/ SP_Recognize
    \/ SP_WriteEntities
    \/ SP_Normalize
    \/ SP_WriteProcessed
    \/ SP_Store
    \/ SP_WriteDb
    \/ SP_Return
    \/ MainSingleSummary
    \/ MainUncaught
SpecSingle == InitSingle /\ [][NextSingle]_vars

\* The runs on a directory.
InitBatch == Init /\ input_kind = "dir"
NextBatch ==
    \/ MainDispatchDir
    \/ PD_Glob
    \/ PD_BatchExtract
    \/ PD_MissingArtifact
    \/ PD_Load
    \/ PD_Recognize
    \/ PD_WriteEntities
    \/ PD_Normalize
    \/ PD_WriteProcessed
    \/ PD_Store
    \/ PD_WriteDb
    \/ PD_Classify
    \/ PD_Return
    \/ MainBatchSummary
    \/ MainUncaught
SpecBatch == InitBatch /\ [][NextBatch]_vars

-----------------------------------------------------------------------------
(* What the history says about the files of a batch.                       *)

Files == 1..Len(pdf_files)
EventsAbout(op, k) ==
    {e \in DOMAIN events : events[e].op = op /\ events[e].idx = k}
StageEvents(op, stage, k) ==
    {e \in DOMAIN events :
        events[e].op = op /\ events[e].idx = k /\ events[e].stage = stage}
CountedAs(as, k) == StageEvents("count", as, k) # {}
RaisedFor(k) == EventsAbout("raise", k) # {}
InBatch == input_kind = "dir" /\ pc \notin {"main", "pd_glob", "pd_batch"}
\* Between two files: the files before position i are behind the loop.
AtLoopHead == input_kind = "dir" /\ pc = "pd_loop"
Done == 1..(i - 1)
BatchReturned == InBatch /\ pdf_files # <<>> /\ result # NoResult

-----------------------------------------------------------------------------
(* C1: every batch run that returns a summary has successful + failed ==   *)
(* file_count, and every discovered file was counted exactly once, as      *)
(* successful or as failed; while the loop runs the two counters add up to *)
(* the number of files already behind it.                                  *)
C1_CountersAddUp ==
    /\ AtLoopHead => successful + failed = i - 1
    /\ BatchReturned =>
         /\ result.file_count = Len(pdf_files)
         /\ result.successful + result.failed = result.file_count
         /\ \A k \in Files : Cardinality(EventsAbout("count", k)) = 1
         /\ result.successful =
               Cardinality({k \in Files : CountedAs("successful", k)})
         /\ result.failed = Cardinality({k \in Files : CountedAs("failed", k)})

C1_Witness ==
    /\ BatchReturned
    /\ result.file_count = 3
    /\ result.successful = 1
    /\ result.failed = 2
    /\ \E k \in Files : RaisedFor(k)
    /\ \E k \in Files : CountedAs("failed", k) /\ ~RaisedFor(k)

-----------------------------------------------------------------------------
(* C2: in a batch an exception raised for one file, at whichever step of   *)
(* its processing, is caught at the per-file boundary: the step adds one   *)
(* to failed, leaves successful and products_found alone and moves the     *)
(* loop to the next file; the exception never leaves process_directory,    *)
(* and the summary is returned with every discovered file visited.         *)
LoopPcs ==
    {"pd_loop", "pd_recognize", "pd_write_entities", "pd_normalize",
     "pd_write_processed", "pd_store", "pd_write_db", "pd_classify"}

RaisesInLoop ==
    /\ pc \in LoopPcs
    /\ Len(events') > Len(events)
    /\ \E e \in (Len(events) + 1)..Len(events') : events'[e].op = "raise"

C2_PerFileExceptionCaught ==
    /\ [][RaisesInLoop =>
            /\ failed' = failed + 1
            /\ successful' = successful
            /\ products_found' = products_found
            /\ i' = i + 1
            /\ pc' = "pd_loop"]_vars
    /\ [](pc = "uncaught" /\ input_kind = "dir" => i = 0)
    /\ [](BatchReturned =>
            \A k \in Files : Cardinality(EventsAbout("count", k)) = 1)

C2_Witness ==
    /\ BatchReturned
    /\ Len(pdf_files) = 3
    /\ StageEvents("raise", "recognize", 1) # {}
    /\ StageEvents("raise", "write_db_result", 2) # {}
    /\ CountedAs("successful", 3)
    /\ result.failed = 2
    /\ result.successful = 1

-----------------------------------------------------------------------------
(* C3: a discovered file whose extraction artifact <base>.json is absent   *)
(* when the batch extractor has returned is counted as failed exactly      *)
(* once, no collaborator is called and no artifact is written for it, and  *)
(* every other discovered file is still visited by the loop.               *)
C3_MissingArtifactCountedFailed ==
    BatchReturned =>
      \A k \in Files :
        ExtractionPath(BaseName(pdf_files[k])) \notin after_extract =>
          /\ Cardinality(EventsAbout("count", k)) = 1
          /\ CountedAs("failed", k)
          /\ EventsAbout("call", k) = {}
          /\ EventsAbout("write", k) = {}
          /\ EventsAbout("raise", k) = {}
          /\ \A j \in Files \ {k} : EventsAbout("count", j) # {}

-----------------------------------------------------------------------------
(* C4 as stated: a file that reaches the end of normalization is counted   *)
(* by the storage flag alone: with storage enabled it is successful if and *)
(* only if the storage outcome's success flag is true, and a false or      *)
(* absent flag still has <base>_db_result.json written; with storage       *)
(* disabled it is successful unconditionally and the sink is never called. *)
Normalized(k) ==
    StageEvents("call", "normalize", k) # {} /\ StageEvents("raise", "normalize", k) = {}
StoreReturned(k) ==
    StageEvents("call", "store", k) # {} /\ StageEvents("raise", "store", k) = {}
StoreFlagTrue(k) ==
    StoreReturned(k) /\ \E e \in StageEvents("call", "store", k) : events[e].n = 1
Wrote(stage, k) ==
    \E e \in DOMAIN events :
        events[e].op = "write" /\ events[e].idx = k /\ events[e].stage = stage

ClassifiedByFlag(k) ==
    IF store_in_db
    THEN /\ CountedAs("successful", k) <=> StoreFlagTrue(k)
         /\ (StoreReturned(k) /\ ~StoreFlagTrue(k)) =>
               (CountedAs("failed", k) /\ Wrote("db_result", k))
    ELSE /\ CountedAs("successful", k)
         /\ StageEvents("call", "store", k) = {}

C4_ClassifiedByFlagAlone ==
    AtLoopHead => \A k \in Done : Normalized(k) => ClassifiedByFlag(k)

(* C4 as amended: the same, for a file that reaches the end of             *)
(* normalization and for which no later step of its processing raises     *)
(* (writing <base>_processed.json, the storage call, writing               *)
(* <base>_db_result.json); the sink is never called with storage disabled. *)
C4_ClassifiedByFlagUnlessRaised ==
    AtLoopHead =>
      /\ \A k \in Done : (Normalized(k) /\ ~RaisedFor(k)) => ClassifiedByFlag(k)
      /\ ~store_in_db => \A k \in Done : StageEvents("call", "store", k) = {}

C4_Witness ==
    /\ BatchReturned
    /\ store_in_db
    /\ \E k \in Files :
         /\ Normalized(k) /\ StoreReturned(k) /\ ~StoreFlagTrue(k)
         /\ ~RaisedFor(k)
         /\ CountedAs("failed", k)
         /\ Wrote("db_result", k)
    /\ \E k \in Files : StoreFlagTrue(k) /\ CountedAs("successful", k)

-----------------------------------------------------------------------------
(* C5: products_found is the sum of the product counts the normalizer      *)
(* returned for exactly the files counted as successful; a file counted as *)
(* failed contributes nothing.                                             *)
ProductsOf(k) ==
    LET e == CHOOSE x \in StageEvents("call", "normalize", k) : TRUE
    IN  events[e].n

RECURSIVE SumProducts(_)
SumProducts(S) ==
    IF S = {} THEN 0
    ELSE LET k == CHOOSE x \in S : TRUE
         IN  ProductsOf(k) + SumProducts(S \ {k})

C5_ProductsOfSuccessfulFiles ==
    /\ AtLoopHead =>
          products_found = SumProducts({k \in Done : CountedAs("successful", k)})
    /\ BatchReturned =>
          result.products_found =
             SumProducts({k \in Files : CountedAs("successful", k)})

C5_Witness ==
    /\ BatchReturned
    /\ store_in_db
    /\ Len(pdf_files) = 2
    /\ \E k \in Files :
         /\ StoreReturned(k) /\ ~StoreFlagTrue(k)
         /\ CountedAs("failed", k)
         /\ ProductsOf(k) = MaxProducts
    /\ \E k \in Files : CountedAs("successful", k) /\ ProductsOf(k) = 1
    /\ result.products_found = 1

-----------------------------------------------------------------------------
(* C6: when nothing in the input directory matches the pattern,            *)
(* process_directory returns exactly {file_count: 0, error: <non-empty>},  *)
(* no collaborator is called and no artifact is written.                   *)
C6_NoFilesEarlyReturn ==
    (input_kind = "dir" /\ pc \notin {"main", "pd_glob"} /\ pdf_files = <<>>) =>
      /\ DOMAIN result = {"file_count", "error"}
      /\ result.file_count = 0
      /\ result.error # ""
      /\ pc \in {"main_batch_summary", "exited"}
      /\ events = <<>>
      /\ outdir = {}

C6_Witness ==
    /\ input_kind = "dir"
    /\ pc = "main_batch_summary"
    /\ pdf_files = <<>>
    /\ F_notes \in listing

-----------------------------------------------------------------------------
(* C7: the process exits with status 0 on every run in which the           *)
(* orchestrator returned (a file run, a directory run with per-file        *)
(* failures, a directory run where nothing matches), and with a non-zero   *)
(* status, calling no orchestrator, when the input path is neither a file  *)
(* nor a directory.                                                        *)
C7_ExitStatus ==
    pc = "exited" =>
      /\ result # NoResult => exit_code = 0
      /\ input_kind = "none" => (exit_code # 0 /\ events = <<>> /\ result = NoResult)

-----------------------------------------------------------------------------
(* What the history says about a single-document run.                      *)

SingleReturned == input_kind = "file" /\ pc \in {"main_single_summary", "exited"}
                     /\ result # NoResult
WrittenPaths == {events[e].path : e \in EventsOf("write")}
StoreCalls == {e \in EventsOf("call") : events[e].stage = "store"}

\* The examples of the specification.
FlatEntities == [ORG |-> <<"Acme">>, PRICE |-> <<"19.99">>]
NestedEntities == [entities |-> FlatEntities]

\* The base name of each input the runs are started on.
ExpectedBase ==
    IF pdf_path = PathJoin(input_dir, F_a) THEN "a" ELSE "a_processed"

-----------------------------------------------------------------------------
(* C8: in a single-document run with storage disabled the storage sink is  *)
(* never called, <base>_db_result.json is never written and the summary's  *)
(* storage section is the marker {skipped: true}; with storage enabled the *)
(* section is the outcome the sink returned.                               *)
C8_StorageSectionSkippedMarker ==
    /\ (input_kind = "file" /\ ~store_in_db) =>
          /\ StoreCalls = {}
          /\ (ExpectedBase \o "_db_result.json") \notin outdir
          /\ (ExpectedBase \o "_db_result.json") \notin WrittenPaths
    /\ SingleReturned =>
          IF store_in_db
          THEN /\ Cardinality(StoreCalls) = 1
               /\ result.database_storage = db_result
               /\ db_result \in StorageOutcomes
               /\ \A e \in StoreCalls :
                     (events[e].n = 1) <=>
                        (result.database_storage =
                            [success |-> TRUE, document_id |-> 1,
                             product_ids |-> <<1>>])
          ELSE /\ result.database_storage = [skipped |-> TRUE]
               /\ "success" \notin DOMAIN result.database_storage

C8_Witness ==
    /\ SingleReturned
    /\ ~store_in_db
    /\ result.database_storage = [skipped |-> TRUE]
    /\ ProcessedPath(base_name) \in outdir

-----------------------------------------------------------------------------
(* C9 as stated: the summary's entity_types is the key set of the mapping  *)
(* the recognizer returned and entity_count the number of its values: a    *)
(* recognizer result {"ORG": ["Acme"], "PRICE": ["19.99"]} gives           *)
(* entity_types {ORG, PRICE} and entity_count 2.                           *)
C9_EntityStatsOfReturnedMapping ==
    SingleReturned =>
      /\ result.entity_extraction.entity_types = DOMAIN entities_data
      /\ entities_data = FlatEntities =>
            /\ result.entity_extraction.entity_types = {"ORG", "PRICE"}
            /\ result.entity_extraction.entity_count = 2

(* C9 as amended: entity_types is the key set of the mapping held under    *)
(* the "entities" key of the recognizer's result and entity_count the      *)
(* number of that mapping's values, both empty/0 when the key is absent:   *)
(* {"entities": {"ORG": ["Acme"], "PRICE": ["19.99"]}} gives {ORG, PRICE}  *)
(* and 2, the bare {"ORG": [...], "PRICE": [...]} gives {} and 0.          *)
C9_EntityStatsOfEntitiesKey ==
    SingleReturned =>
      /\ entities_data \in EntityResults
      /\ entities_data = NestedEntities =>
            /\ result.entity_extraction.entity_types = {"ORG", "PRICE"}
            /\ result.entity_extraction.entity_count = 2
      /\ entities_data = FlatEntities =>
            /\ result.entity_extraction.entity_types = {}
            /\ result.entity_extraction.entity_count = 0
      /\ "entities" \in DOMAIN entities_data =>
            /\ result.entity_extraction.entity_types =
                  DOMAIN entities_data["entities"]
            /\ result.entity_extraction.entity_count =
                  Cardinality(UNION {{<<t, j>> :
                                        j \in DOMAIN entities_data["entities"][t]} :
                                     t \in DOMAIN entities_data["entities"]})
      /\ "entities" \notin DOMAIN entities_data =>
            /\ result.entity_extraction.entity_types = {}
            /\ result.entity_extraction.entity_count = 0

C9_Witness ==
    /\ SingleReturned
    /\ entities_data = NestedEntities
    /\ result.entity_extraction.entity_count = 2

-----------------------------------------------------------------------------
(* C10: the artifacts a completed single-document run wrote are exactly    *)
(* <base>_processed.json, plus <base>_text.json and <base>_entities.json   *)
(* if and only if intermediates were requested, plus <base>_db_result.json *)
(* if and only if storage was requested, whatever the storage outcome.     *)
ExpectedArtifacts ==
    {ExpectedBase \o "_processed.json"}
    \cup (IF save_intermediates
          THEN {ExpectedBase \o "_text.json", ExpectedBase \o "_entities.json"}
          ELSE {})
    \cup (IF store_in_db THEN {ExpectedBase \o "_db_result.json"} ELSE {})

C10_ArtifactsOfCompletedRun ==
    SingleReturned =>
      /\ WrittenPaths = ExpectedArtifacts
      /\ outdir = ExpectedArtifacts
      /\ Len(events) = Cardinality(EventsOf("call")) + Cardinality(ExpectedArtifacts)

C10_Witness ==
    /\ SingleReturned
    /\ store_in_db
    /\ ~save_intermediates
    /\ ~StorageSucceeded(db_result)
    /\ outdir = {"a_processed.json", "a_db_result.json"}

-----------------------------------------------------------------------------
(* process_single_pdf invoked again on the same document, output directory *)
(* and flags.                                                              *)

\* How many invocations of process_single_pdf a behaviour holds.
MaxRuns == 2

\* Each invocation begins with its call of the extractor.
RunStarts == {e \in EventsOf("call") : events[e].stage = "extract"}
RunsStarted == Cardinality(RunStarts)

\* The caller invokes process_single_pdf once more after it returned: the
\* arguments and the output directory are as the earlier run left them, the
\* locals are those of a fresh call.
SP_RunAgain ==
    /\ pc = "main_single_summary"
    /\ RunsStarted < MaxRuns
    /\ pc' = "sp_extract"
    /\ result' = NoResult
    /\ pdf_info' = EmptyDict
    /\ entities_data' = EmptyDict
    /\ processed_data' = EmptyDict
    /\ db_result' = EmptyDict
    /\ UNCHANGED <<selfcheck, args, pdf_files, i, counters, outdir, after_extract,
                   events, exit_code>>

NextRerun ==
    \/ MainDispatchFile
    \/ SP_Extract
    \/ SP_WriteText
    \/ SP_Recognize
    \/ SP_WriteEntities
    \/ SP_Normalize
    \/ SP_WriteProcessed
    \/ SP_Store
    \/ SP_WriteDb
    \/ SP_Return
    \/ SP_RunAgain
    \/ MainSingleSummary
    \/ MainUncaught
SpecRerun == InitSingle /\ [][NextRerun]_vars

\* The run an event belongs to, and the names a run wrote.
RunOf(e) == Cardinality({s \in RunStarts : s <= e})
PathsOfRun(r) == {events[e].path : e \in {w \in EventsOf("write") : RunOf(w) = r}}
LaterRuns == 2..RunsStarted
RunCompleted(r) == r < RunsStarted \/ result # NoResult

-----------------------------------------------------------------------------
(* C11: process_single_pdf is idempotent on the artifact names: a run on   *)
(* the same input, output directory and flags as a completed first run     *)
(* writes under no name the first run did not use, writes under exactly    *)
(* the names of the first run once it completes, and the output directory  *)
(* holds the first run's names and no other.                               *)
C11_RerunKeepsArtifactNames ==
    \A r \in LaterRuns :
        /\ PathsOfRun(r) \subseteq PathsOfRun(1)
        /\ RunCompleted(r) => PathsOfRun(r) = PathsOfRun(1)
        /\ outdir = PathsOfRun(1)

\* A second run with every artifact requested has returned its summary.
C11_Witness ==
    /\ RunsStarted = 2
    /\ pc = "main_single_summary"
    /\ result # NoResult
    /\ save_intermediates
    /\ store_in_db
    /\ PathsOfRun(2) = {TextPath(base_name), EntitiesPath(base_name),
                        ProcessedPath(base_name), DbResultPath(base_name)}

-----------------------------------------------------------------------------
(* What the history says about a run on a single document.                 *)

\* The stages of process_single_pdf in the order of its code, and the
\* artifact each one's result is written to.
StageOrder == <<"extract", "recognize", "normalize", "store">>
StagePos(stage) == CHOOSE p \in DOMAIN StageOrder : StageOrder[p] = stage
ArtifactOf(stage) ==
    CASE stage = "extract"   -> TextPath(base_name)
      [] stage = "recognize" -> EntitiesPath(base_name)
      [] stage = "normalize" -> ProcessedPath(base_name)
      [] stage = "store"     -> DbResultPath(base_name)
ArtifactsFrom(stage) ==
    {ArtifactOf(StageOrder[p]) : p \in StagePos(stage)..Len(StageOrder)}
StagesAfter(stage) ==
    {StageOrder[p] : p \in (StagePos(stage) + 1)..Len(StageOrder)}
CalledStages == {events[e].stage : e \in EventsOf("call")}
CollaboratorRaises ==
    {e \in EventsOf("raise") :
        events[e].stage \in {"extract", "recognize", "normalize"}}

-----------------------------------------------------------------------------
(* C12: in a single-document run an exception raised by the extractor, the *)
(* recognizer or the normalizer leaves process_single_pdf uncaught: it is  *)
(* the last thing the run does, no summary is returned, no later stage is  *)
(* invoked, and no artifact of the failing stage or of a later stage is    *)
(* written.                                                                *)
C12_CollaboratorFailurePropagates ==
    \A e \in CollaboratorRaises :
        /\ e = Len(events)
        /\ pc \in {"uncaught", "exited"}
        /\ result = NoResult
        /\ exit_code # 0
        /\ CalledStages \cap StagesAfter(events[e].stage) = {}
        /\ WrittenPaths \cap ArtifactsFrom(events[e].stage) = {}
        /\ outdir \cap ArtifactsFrom(events[e].stage) = {}

\* The normalizer raised after both intermediates were written, and the
\* process has ended.
C12_Witness ==
    /\ input_kind = "file"
    /\ pc = "exited"
    /\ events # <<>>
    /\ events[Len(events)] = Raise("normalize", 0)
    /\ CalledStages = {"extract", "recognize", "normalize"}
    /\ outdir = {TextPath(base_name), EntitiesPath(base_name)}

-----------------------------------------------------------------------------
(* C13: no stage is retried.  In a single-document run the extractor, the  *)
(* recognizer, the normalizer and the storage sink are each invoked at     *)
(* most once; in a batch run the batch extractor is invoked exactly once   *)
(* when a file matches (and never when none does), and the recognizer, the *)
(* normalizer and the storage sink each at most once for every discovered  *)
(* file, whatever failed.                                                  *)
CallsOf(stage, k) == Cardinality(StageEvents("call", stage, k))
\* Where the history is looked at: everywhere in a single-document run; in
\* a batch run at every head of the loop (the history does not change after
\* the last one), where an exception leaves, and where no file matched.
BetweenSteps ==
    \/ input_kind = "file"
    \/ AtLoopHead
    \/ input_kind = "dir" /\ (pc = "uncaught" \/ pdf_files = <<>>)

C13_NoStageRetried ==
    BetweenSteps =>
        /\ input_kind = "file" =>
             \A p \in DOMAIN StageOrder : CallsOf(StageOrder[p], 0) <= 1
        /\ input_kind = "dir" =>
             /\ CallsOf("extract_batch", 0) =
                    (IF InBatch /\ pdf_files # <<>> THEN 1 ELSE 0)
             /\ \A k \in Files :
                    \A stage \in {"recognize", "normalize", "store"} :
                        CallsOf(stage, k) <= 1
             /\ \A e \in EventsOf("call") :
                    events[e].idx \in Files \cup {0}

\* A batch of two files has returned: the first file's recognizer and the
\* second file's storage call failed and every stage ran once for each.
C13_Witness ==
    /\ BatchReturned
    /\ Len(pdf_files) = 2
    /\ StageEvents("raise", "recognize", 1) # {}
    /\ StageEvents("raise", "store", 2) # {}
    /\ CallsOf("recognize", 1) = 1
    /\ CallsOf("recognize", 2) = 1
    /\ CallsOf("normalize", 2) = 1
    /\ CallsOf("store", 2) = 1
    /\ CallsOf("extract_batch", 0) = 1

-----------------------------------------------------------------------------
(* C14: in a batch run the extraction phase lies wholly before the serial  *)
(* phase and the storage sink has one caller.  Every per-file event (load, *)
(* recognition, normalization, storage, their writes and the counting)     *)
(* comes after the call of the batch extractor and after every extraction  *)
(* artifact it wrote (no extraction event follows a per-file event); the   *)
(* per-file events are in the order of the files,                          *)
(* the events of a file end with its counting before the next file's       *)
(* begin, and between two storage calls the earlier file has been counted. *)
(* The history only grows inside the loop and in the call of the           *)
(* extractor: it is looked at at every head of the loop and where the      *)
(* extractor's exception leaves.                                           *)
IsExtraction(e) == events[e].stage = "extract_batch"
ExtractionEvents == {e \in DOMAIN events : IsExtraction(e)}

C14_ExtractionBeforeSerialPhase ==
    (AtLoopHead \/ (input_kind = "dir" /\ pc = "uncaught")) =>
        /\ (\E e \in DOMAIN events : ~IsExtraction(e)) =>
             /\ events[1] = Call("extract_batch", 0, 0)
             /\ after_extract =
                    {events[x].path :
                        x \in {w \in DOMAIN events :
                                  IsExtraction(w) /\ events[w].op = "write"}}
        /\ \A e \in DOMAIN events : ~IsExtraction(e) => events[e].idx >= 1
        /\ \A e \in 1..(Len(events) - 1) :
             IF IsExtraction(e + 1)
             THEN IsExtraction(e)
             ELSE ~IsExtraction(e) =>
                    /\ events[e].idx <= events[e + 1].idx
                    /\ events[e].op = "count" =>
                           events[e].idx < events[e + 1].idx
        /\ \A e \in StoreCalls : \A f \in StoreCalls :
             e < f => \E c \in e..f : /\ events[c].op = "count"
                                      /\ events[c].idx = events[e].idx

\* Two files were extracted, and each was recognized, normalized and stored
\* in its turn.
C14_Witness ==
    /\ BatchReturned
    /\ Len(pdf_files) = 2
    /\ Cardinality(ExtractionEvents \cap EventsOf("write")) = 2
    /\ StageEvents("call", "store", 1) # {}
    /\ StageEvents("call", "store", 2) # {}
    /\ successful = 2

-----------------------------------------------------------------------------
(* C15: in a batch run no artifact of a file is overwritten by the         *)
(* processing of a different file: two writes that belong to different     *)
(* discovered files (the extraction artifact <base>.json included) never   *)
(* go to the same path, the four paths being derived from the file's own   *)
(* base name.                                                              *)
ArtifactPaths(k) ==
    {ExtractionPath(BaseName(pdf_files[k])), EntitiesPath(BaseName(pdf_files[k])),
     ProcessedPath(BaseName(pdf_files[k])), DbResultPath(BaseName(pdf_files[k]))}
WritesOf(k) == {events[e].path : e \in EventsAbout("write", k)}

C15_ArtifactPathsDisjoint ==
    (input_kind = "dir" /\ BetweenSteps) =>
        \A j \in Files : \A k \in Files :
            j # k => /\ WritesOf(j) \subseteq ArtifactPaths(j)
                     /\ WritesOf(j) \cap WritesOf(k) = {}

-----------------------------------------------------------------------------
(* The artifacts the per-file loop writes for a file.                      *)

\* What the loop did for file k, in order.
IterationOf(k) ==
    SelectSeq(events, LAMBDA r : r.idx = k /\ r.stage # "extract_batch")
Has(ev, op, stage) ==
    \E e \in DOMAIN ev : ev[e].op = op /\ ev[e].stage = stage
BaseOf(k) == BaseName(pdf_files[k])
LoopWrites(k) ==
    LET ev == IterationOf(k)
    IN  {ev[e].path : e \in {w \in DOMAIN ev : ev[w].op = "write"}}
ProcessedBeforeStore(ev) ==
    \A s \in DOMAIN ev :
        (ev[s].op = "call" /\ ev[s].stage = "store") =>
            \E w \in 1..(s - 1) : ev[w].op = "write" /\ ev[w].stage = "processed"
NoTextArtifact(ev, k) ==
    \A e \in DOMAIN ev :
        ev[e].op = "write" =>
            (ev[e].stage # "text" /\ ev[e].path # TextPath(BaseOf(k)))
ReachedEndOfNormalization(ev) ==
    Has(ev, "call", "normalize") /\ ~Has(ev, "raise", "normalize")
WritesAsStated(ev, k) ==
    /\ Has(ev, "write", "processed")
    /\ ProcessedPath(BaseOf(k)) \in outdir
    /\ ProcessedBeforeStore(ev)
    /\ Has(ev, "write", "entities") <=> save_intermediates
    /\ Has(ev, "write", "db_result") <=> store_in_db
    /\ NoTextArtifact(ev, k)
\* The file the loop has just left: its part of the history is complete.
JustDone == {i - 1} \cap Files

(* C16 as stated: in batch mode every file that reaches the end of         *)
(* normalization has <base>_processed.json written, before the storage     *)
(* sink is invoked, <base>_entities.json written if and only if            *)
(* intermediates were requested, <base>_db_result.json written if and only *)
(* if storage was requested, and <base>_text.json never.  Checked for      *)
(* each file when the loop leaves it.                                      *)
C16_ArtifactsOfNormalizedFile ==
    AtLoopHead =>
        \A k \in JustDone :
            LET ev == IterationOf(k)
            IN  ReachedEndOfNormalization(ev) => WritesAsStated(ev, k)

(* C16 as amended: the same for a file none of whose later steps raises.   *)
(* For every file that reaches the end of normalization,                   *)
(* <base>_entities.json is written if and only if intermediates were       *)
(* requested and <base>_text.json never; <base>_processed.json is written  *)
(* unless writing it raises, and the storage sink is invoked only after it *)
(* was written, so it exists whenever storage returned an outcome;         *)
(* <base>_db_result.json is written if and only if storage was requested   *)
(* and neither the write of <base>_processed.json, the storage call nor    *)
(* the write of <base>_db_result.json raised.                              *)
C16_ArtifactsUnlessRaised ==
    AtLoopHead =>
        \A k \in JustDone :
            LET ev == IterationOf(k)
                raised == \E e \in DOMAIN ev : ev[e].op = "raise"
            IN  ReachedEndOfNormalization(ev) =>
                    /\ ~raised => WritesAsStated(ev, k)
                    /\ NoTextArtifact(ev, k)
                    /\ Has(ev, "write", "entities") <=> save_intermediates
                    /\ Has(ev, "write", "processed") <=>
                           ~Has(ev, "raise", "write_processed")
                    /\ ProcessedBeforeStore(ev)
                    /\ (Has(ev, "call", "store") /\ ~Has(ev, "raise", "store")) =>
                           /\ Has(ev, "write", "processed")
                           /\ ProcessedPath(BaseOf(k)) \in outdir
                    /\ Has(ev, "write", "db_result") <=> (store_in_db /\ ~raised)

\* Storage reported failure for a normalized file whose intermediates were
\* requested: the three artifacts of the loop are there.
C16_Witness ==
    /\ AtLoopHead
    /\ i = 2
    /\ save_intermediates
    /\ store_in_db
    /\ Normalized(1)
    /\ StoreReturned(1)
    /\ ~StoreFlagTrue(1)
    /\ LoopWrites(1) = {EntitiesPath(BaseOf(1)), ProcessedPath(BaseOf(1)),
                        DbResultPath(BaseOf(1))}

-----------------------------------------------------------------------------
(* C17: in every single-document run the stages are invoked in the order   *)
(* extraction, entity recognition, normalization, storage, each after the  *)
(* previous one returned and its artifact, if any, was written: the calls  *)
(* and writes of a run are an initial part of                              *)
(*   extract, [<base>_text.json], recognize, [<base>_entities.json],       *)
(*   normalize, <base>_processed.json, [store, <base>_db_result.json]      *)
(* (the intermediates only when requested, the storage part only when the  *)
(* storage flag is set), the whole of it when the run returns, and an      *)
(* exception is the last thing of a run.  The storage sink is invoked only *)
(* after <base>_processed.json was written and only with the flag set.     *)
Shape(e) == <<events[e].op, events[e].stage>>
StepsInOrder ==
    <<(<<"call", "extract">>)>>
    \o (IF save_intermediates THEN <<(<<"write", "text">>)>> ELSE <<>>)
    \o <<(<<"call", "recognize">>)>>
    \o (IF save_intermediates THEN <<(<<"write", "entities">>)>> ELSE <<>>)
    \o <<(<<"call", "normalize">>), (<<"write", "processed">>)>>
    \o (IF store_in_db
        THEN <<(<<"call", "store">>), (<<"write", "db_result">>)>>
        ELSE <<>>)
StepsDone == {e \in DOMAIN events : events[e].op # "raise"}

C17_StagesInFixedOrder ==
    input_kind = "file" =>
        /\ \A e \in EventsOf("raise") : e = Len(events)
        /\ Cardinality(StepsDone) <= Len(StepsInOrder)
        /\ \A e \in StepsDone : Shape(e) = StepsInOrder[e]
        /\ SingleReturned => Cardinality(StepsDone) = Len(StepsInOrder)
        /\ \A s \in StoreCalls :
             /\ store_in_db
             /\ \E w \in EventsOf("write") :
                    /\ w < s
                    /\ events[w].path = ProcessedPath(base_name)
                    /\ ProcessedPath(base_name) \in outdir

\* A run with intermediates and storage has returned after all four stages.
C17_Witness ==
    /\ SingleReturned
    /\ save_intermediates
    /\ store_in_db
    /\ Len(events) = 8
    /\ Shape(7) = <<"call", "store">>
    /\ Shape(8) = <<"write", "db_result">>

-----------------------------------------------------------------------------
(* C18: a single-document run with intermediates requested that fails at a *)
(* stage leaves the artifacts the earlier stages wrote, without rollback:  *)
(* after a failure of the recognizer the output directory holds            *)
(* <base>_text.json, after a failure of the normalizer <base>_text.json    *)
(* and <base>_entities.json, and in neither case does                      *)
(* <base>_processed.json exist as a result of the run.                     *)
FailedAt(stage) ==
    /\ input_kind = "file"
    /\ pc \in {"uncaught", "exited"}
    /\ events # <<>>
    /\ events[Len(events)] = Raise(stage, 0)

C18_NoRollbackOfIntermediates ==
    save_intermediates =>
        /\ FailedAt("recognize") =>
             /\ outdir = {TextPath(base_name)}
             /\ WrittenPaths = {TextPath(base_name)}
        /\ FailedAt("normalize") =>
             /\ outdir = {TextPath(base_name), EntitiesPath(base_name)}
             /\ WrittenPaths = {TextPath(base_name), EntitiesPath(base_name)}

\* The recognizer failed after <base>_text.json was written, and the
\* process has ended with the artifact in place.
C18_Witness ==
    /\ save_intermediates
    /\ FailedAt("recognize")
    /\ pc = "exited"
    /\ TextPath(base_name) \in outdir

-----------------------------------------------------------------------------
(* C19: an exception raised by the call of the batch extractor is outside  *)
(* the per-file catch: it leaves process_directory, it is the last thing   *)
(* the run does, no per-file stage runs for any file, no file is counted   *)
(* and no batch summary is returned.                                       *)
ExtractorRaised == StageEvents("raise", "extract_batch", 0) # {}

C19_ExtractorFailurePropagates ==
    (input_kind = "dir" /\ ExtractorRaised) =>
        /\ pc \in {"uncaught", "exited"}
        /\ events[Len(events)] = Raise("extract_batch", 0)
        /\ \A e \in DOMAIN events : IsExtraction(e)
        /\ i = 0
        /\ successful = 0 /\ failed = 0 /\ products_found = 0
        /\ result = NoResult
        /\ exit_code # 0

\* The batch extractor raised on a listing of two files after one of its
\* workers had written its artifact, and the process has ended.
C19_Witness ==
    /\ input_kind = "dir"
    /\ ExtractorRaised
    /\ pc = "exited"
    /\ Len(pdf_files) = 2
    /\ Cardinality(outdir) = 1
    /\ exit_code = 1

-----------------------------------------------------------------------------
(* test_system.py: the system self-check.                                  *)

\* The values a check returns: True, False, or None when the function body
\* ends without a return statement.
PyTrue == "True"
PyFalse == "False"
PyNone == "None"

\* A faulty variant: anything but False counts as a pass.
Truthy_NotFalse(v) == v # PyFalse

\* `if result` for a value a check returned.
Truthy(v) == v = PyTrue

\* required_dirs of check_directories, and the sets of them that may be
\* missing when the self-check starts.
RequiredDirs ==
    {"src", "src/pdf_processing", "src/nlp", "src/database", "src/api",
     "src/utils", "data", "data/raw", "data/processed"}
MissingAtStart ==
    {{}, {"data/raw"}, {"data", "data/raw", "data/processed"}, RequiredDirs}

\* What check_database finds when it probes: a driver module is missing,
\* SELECT 1 returns the row (1,), it returns another row or none, or the
\* connection raises.
DbProbes == {"no_module", "row_is_1", "row_other", "exception"}
\* What requests.get gives check_api: a status code or an exception.
ApiProbes == {"200", "500", "connection_error", "exception"}

check_database(skip, probe) ==
    IF skip THEN PyTrue
    ELSE CASE probe = "no_module" -> PyFalse
           [] probe = "row_is_1"  -> PyTrue
           [] probe = "row_other" -> PyNone
           [] probe = "exception" -> PyFalse

check_pdf_processing(skip, modules, has_pdfs, import_ok) ==
    IF skip THEN PyTrue
    ELSE IF ~modules THEN PyFalse
    ELSE IF ~has_pdfs THEN PyFalse
    ELSE IF import_ok THEN PyTrue
    ELSE PyFalse

check_nlp_pipeline(skip, has_pdfs, spacy, import_ok) ==
    IF skip THEN PyTrue
    ELSE IF ~has_pdfs THEN PyFalse
    ELSE IF ~spacy THEN PyFalse
    ELSE IF import_ok THEN PyTrue
    ELSE PyFalse

check_api(skip, requests_available, probe) ==
    IF skip THEN PyTrue
    ELSE IF ~requests_available THEN PyFalse
    ELSE IF probe = "200" THEN PyTrue
    ELSE PyFalse

\* A check that is not skipped goes on to look at the system.
Probed(name, skip) == IF skip THEN probes ELSE probes \cup {name}

\* run_pipeline.py is not running.
PipelineNotStarted ==
    /\ input_kind = "none"
    /\ listing = {}
    /\ pdf_path = <<>>
    /\ save_intermediates = FALSE
    /\ store_in_db = TRUE
    /\ pc = "not_started"
    /\ pdf_files = <<>>
    /\ i = 0
    /\ successful = 0
    /\ failed = 0
    /\ products_found = 0
    /\ pdf_info = EmptyDict
    /\ entities_data = EmptyDict
    /\ processed_data = EmptyDict
    /\ db_result = EmptyDict
    /\ outdir = {}
    /\ after_extract = {}
    /\ events = <<>>
    /\ result = NoResult
    /\ exit_code = NoExit

\* main after parser.parse_args() and results = {}.
InitSelfCheck ==
    /\ PipelineNotStarted
    /\ skip_db \in BOOLEAN
    /\ skip_pdf \in BOOLEAN
    /\ skip_nlp \in BOOLEAN
    /\ skip_api \in BOOLEAN
    /\ missing_dirs \in MissingAtStart
    /\ raw_pdfs \in IF "data/raw" \in missing_dirs THEN {FALSE} ELSE BOOLEAN
    /\ tpc = "check_directories"
    /\ results = <<>>
    /\ probes = {}
    /\ status = NoExit

pipeline == <<args, pc, pdf_files, i, counters, locals, outdir, after_extract,
              events, result, exit_code>>

\* results["DIRECTORIES"] = check_directories(): every missing directory is
\* created and the check returns True.
TS_CheckDirectories ==
    /\ tpc = "check_directories"
    /\ missing_dirs' = {}
    /\ results' = Append(results, <<"DIRECTORIES", PyTrue>>)
    /\ probes' = probes \cup {"DIRECTORIES"}
    /\ tpc' = "check_database"
    /\ UNCHANGED <<pipeline, skip_db, skip_pdf, skip_nlp, skip_api, raw_pdfs,
                   status>>

\* results["DATABASE"] = check_database(skip=args.skip_db)
TS_CheckDatabase ==
    /\ tpc = "check_database"
    /\ \E probe \in DbProbes :
         results' = Append(results, <<"DATABASE", check_database(skip_db, probe)>>)
    /\ probes' = Probed("DATABASE", skip_db)
    /\ tpc' = "check_pdf_processing"
    /\ UNCHANGED <<pipeline, skip_db, skip_pdf, skip_nlp, skip_api,
                   missing_dirs, raw_pdfs, status>>

\* results["PDF_PROCESSING"] = check_pdf_processing(skip=args.skip_pdf)
TS_CheckPdfProcessing ==
    /\ tpc = "check_pdf_processing"
    /\ \E modules \in BOOLEAN, import_ok \in BOOLEAN :
         results' = Append(results,
             <<"PDF_PROCESSING",
               check_pdf_processing(skip_pdf, modules, raw_pdfs, import_ok)>>)
    /\ probes' = Probed("PDF_PROCESSING", skip_pdf)
    /\ tpc' = "check_nlp_pipeline"
    /\ UNCHANGED <<pipeline, skip_db, skip_pdf, skip_nlp, skip_api,
                   missing_dirs, raw_pdfs, status>>

\* results["NLP"] = check_nlp_pipeline(skip=args.skip_nlp)
TS_CheckNlpPipeline ==
    /\ tpc = "check_nlp_pipeline"
    /\ \E spacy \in BOOLEAN, import_ok \in BOOLEAN :
         results' = Append(results,
             <<"NLP", check_nlp_pipeline(skip_nlp, raw_pdfs, spacy, import_ok)>>)
    /\ probes' = Probed("NLP", skip_nlp)
    /\ tpc' = "check_api"
    /\ UNCHANGED <<pipeline, skip_db, skip_pdf, skip_nlp, skip_api,
                   missing_dirs, raw_pdfs, status>>

\* results["API"] = check_api(skip=args.skip_api)
TS_CheckApi ==
    /\ tpc = "check_api"
    /\ \E requests_available \in BOOLEAN, probe \in ApiProbes :
         results' = Append(results,
             <<"API", check_api(skip_api, requests_available, probe)>>)
    /\ probes' = Probed("API", skip_api)
    /\ tpc' = "summary"
    /\ UNCHANGED <<pipeline, skip_db, skip_pdf, skip_nlp, skip_api,
                   missing_dirs, raw_pdfs, status>>

\* passed = sum(1 for result in results.values() if result);
\* total = len(results); return 1 if passed < total else 0
TS_Return ==
    /\ tpc = "summary"
    /\ LET passed == Cardinality({k \in DOMAIN results : Truthy(results[k][2])})
           total == Len(results)
       IN  status' = IF passed < total THEN 1 ELSE 0
    /\ tpc' = "returned"
    /\ UNCHANGED <<pipeline, skip_db, skip_pdf, skip_nlp, skip_api,
                   missing_dirs, raw_pdfs, results, probes>>

NextSelfCheck ==
    \/ TS_CheckDirectories
    \/ TS_CheckDatabase
    \/ TS_CheckPdfProcessing
    \/ TS_CheckNlpPipeline
    \/ TS_CheckApi
    \/ TS_Return
SpecSelfCheck == InitSelfCheck /\ [][NextSelfCheck]_vars

-----------------------------------------------------------------------------
(* C20: the self-check runs all five checks, directories, database, PDF    *)
(* processing, NLP and API, in that order whatever the earlier checks      *)
(* returned; it returns 0 if and only if every check returned a true       *)
(* value, and 1 otherwise; a check called with its skip flag returns True  *)
(* without probing the system; check_directories always returns True; a    *)
(* run with all four skip flags returns 0.                                 *)
CheckOrder == <<"DIRECTORIES", "DATABASE", "PDF_PROCESSING", "NLP", "API">>
SkipFlag(name) ==
    CASE name = "DIRECTORIES"    -> FALSE
      [] name = "DATABASE"       -> skip_db
      [] name = "PDF_PROCESSING" -> skip_pdf
      [] name = "NLP"            -> skip_nlp
      [] name = "API"            -> skip_api
AllSkipped == skip_db /\ skip_pdf /\ skip_nlp /\ skip_api

C20_SelfCheckRunsAllChecks ==
    tpc # "not_started" =>
        /\ Len(results) <= Len(CheckOrder)
        /\ \A k \in DOMAIN results :
             /\ results[k][1] = CheckOrder[k]
             /\ SkipFlag(results[k][1]) =>
                    (results[k][2] = PyTrue /\ results[k][1] \notin probes)
             /\ ~SkipFlag(results[k][1]) => results[k][1] \in probes
        /\ results # <<>> => results[1] = <<"DIRECTORIES", PyTrue>>
        /\ tpc \in {"summary", "returned"} => Len(results) = Len(CheckOrder)
        /\ tpc = "returned" =>
             /\ status \in {0, 1}
             /\ status = 0 <=> \A k \in DOMAIN results : results[k][2] = PyTrue
             /\ AllSkipped => status = 0

\* The database check failed and the later checks still ran: the API check,
\* not skipped, passed, and the self-check returned 1.
C20_Witness ==
    /\ tpc = "returned"
    /\ status = 1
    /\ ~skip_db
    /\ ~skip_api
    /\ results[2] = <<"DATABASE", PyFalse>>
    /\ results[5] = <<"API", PyTrue>>
    /\ probes = {"DIRECTORIES", "DATABASE", "API"}

=============================================================================
